---------------------------- MODULE Spec2Model ----------------------------
(***************************************************************************)
(* Streaming invocation aggregator, invocation dispatcher and suggestion   *)
(* merger of server/app/internal/ai_enhanced.py, together with the two     *)
(* endpoints of server/app/enhanced_endpoints.py that consume them.        *)
(*                                                                         *)
(* A text (a Python str that may hold JSON) is a sequence of pieces.  A    *)
(* piece is the whole text of a JSON document, the first or second half    *)
(* of such a text, or a literal run of characters.  Python's + and         *)
(* "".join are \o on these sequences; json.loads succeeds exactly on the   *)
(* sequences that spell one complete document.                             *)
(***************************************************************************)
EXTENDS Integers, Sequences, FiniteSets, TLC

VARIABLES
    mode,                   \* "review" | "chat": which generator runs
    pc,                     \* control position of the cycle
    deltas,                 \* history: the deltas consumed from the stream
    function_calls,         \* list of completed invocations
    current_function_calls, \* dict slot -> pending invocation (insertion-ordered)
    issues,                 \* review: suggestions built so far
    diagram_insertions,     \* review: diagram insertions built so far
    yielded,                \* chunks the generator has yielded, in order
    log,                    \* logger.error records: [site, arguments or message]
    error,                  \* the exception that left the generator, or NoError
    sent,                   \* endpoint: messages delivered / object returned
    environ,                \* os.environ: OPENAI_API_KEY and OPENAI_MODEL
    connected,              \* the peer of the duplex channel is still there
    docs,                   \* history: the documents received on the channel
    opened,                 \* history: the documents the transport was opened for
    closed                  \* websocket.close() was called

\* The state of the duplex channel and of the service configuration.
session == <<environ, connected, docs, opened, closed>>

vars == <<mode, pc, deltas, function_calls, current_function_calls, issues,
          diagram_insertions, yielded, log, error, sent, session>>

---------------------------------------------------------------------------
(* Bounds of the model                                                     *)

MaxDeltas == 4    \* deltas of one stream
MaxIssues == 3    \* issues of one payload (merger specification)
MaxCalls == 3     \* invocations of one stream (dispatcher specification)

---------------------------------------------------------------------------
(* JSON values as json.loads produces them                                 *)

JNull == [k |-> "null", s |-> "", a |-> <<>>, o |-> <<>>]
JStr(x) == [k |-> "str", s |-> x, a |-> <<>>, o |-> <<>>]
JNum(x) == [k |-> "num", s |-> x, a |-> <<>>, o |-> <<>>]
JArr(items) == [k |-> "list", s |-> "", a |-> items, o |-> <<>>]
JObj(members) == [k |-> "dict", s |-> "", a |-> <<>>, o |-> members]

\* Python truthiness of a parsed value (used by `if not text_issues`,
\* `args.get("type")`, `if text_issues`).
Truthy(v) ==
    CASE v.k = "null" -> FALSE
      [] v.k = "str" -> v.s # ""
      [] v.k = "num" -> v.s # "0"
      [] v.k = "list" -> v.a # <<>>
      [] v.k = "dict" -> DOMAIN v.o # {}

\* dict.get(key, default) on a value known to be a dict.
Get(d, key, default) == IF key \in DOMAIN d.o THEN d.o[key] ELSE default

---------------------------------------------------------------------------
(* Texts and json.loads / json.dumps                                       *)

Whole(d) == [part |-> "whole", doc |-> d]
FirstHalf(d) == [part |-> "head", doc |-> d]
SecondHalf(d) == [part |-> "tail", doc |-> d]
Lit(x) == [part |-> "lit", doc |-> JStr(x)]

\* Optional text: Python None against a str.
NoneText == [some |-> FALSE, text |-> <<>>]
Some(t) == [some |-> TRUE, text |-> t]

\* `x or ""`
OrEmpty(x) == IF x.some /\ x.text # <<>> THEN x.text ELSE <<>>

\* Python None for the name of a fragment.
None == "None"

\* `if tool_call.function.name:`
NameTruthy(n) == n # None /\ n # ""

JSONDecodeError == [ok |-> FALSE, val |-> JNull]

\* json.loads: the text must spell exactly one complete document.
JsonLoads(t) ==
    IF Len(t) = 1 /\ t[1].part = "whole"
    THEN [ok |-> TRUE, val |-> t[1].doc]
    ELSE IF Len(t) = 2 /\ t[1].part = "head" /\ t[2].part = "tail"
                       /\ t[1].doc = t[2].doc
    THEN [ok |-> TRUE, val |-> t[1].doc]
    ELSE JSONDecodeError

\* json.dumps: one complete document.
JsonDumps(v) == <<Whole(v)>>

---------------------------------------------------------------------------
(* The aggregation loop: lines 65-101 of review_document_with_functions   *)
(* and the identical lines 283-314 of chat_with_document_context          *)

\* `call_index in current_function_calls`
Pending(cfc, call_index) == \E i \in 1..Len(cfc) : cfc[i].index = call_index

PendingAt(cfc, call_index) ==
    CHOOSE i \in 1..Len(cfc) : cfc[i].index = call_index

Invocation(e) == [name |-> e.name, arguments |-> e.arguments]

\* `current_function_calls[call_index] = {...}`: an existing key keeps its
\* place in the dict's order, a new key goes last.
DictSet(cfc, call_index, name, arguments) ==
    LET e == [index |-> call_index, name |-> name, arguments |-> arguments]
    IN  IF Pending(cfc, call_index)
        THEN [cfc EXCEPT ![PendingAt(cfc, call_index)] = e]
        ELSE Append(cfc, e)

\* Mutant: the reuse check is lost, the previous occupant is overwritten.
AggregateFragmentNoReuse(st, tool_call) ==
    LET cfc == st.current_function_calls
        call_index == tool_call.index
    IN  IF NameTruthy(tool_call.name)
        THEN [function_calls |-> st.function_calls,
              current_function_calls |->
                 DictSet(cfc, call_index, tool_call.name,
                         OrEmpty(tool_call.arguments))]
        ELSE IF Pending(cfc, call_index)
        THEN [st EXCEPT !.current_function_calls[PendingAt(cfc, call_index)]
                            .arguments = @ \o OrEmpty(tool_call.arguments)]
        ELSE st

\* Mutant: a nameless fragment opens its slot when it is not pending.
AggregateFragmentAdoptOrphan(st, tool_call) ==
    LET cfc == st.current_function_calls
        call_index == tool_call.index
    IN  IF NameTruthy(tool_call.name)
        THEN [function_calls |->
                 IF Pending(cfc, call_index)
                 THEN Append(st.function_calls,
                             Invocation(cfc[PendingAt(cfc, call_index)]))
                 ELSE st.function_calls,
              current_function_calls |->
                 DictSet(cfc, call_index, tool_call.name,
                         OrEmpty(tool_call.arguments))]
        ELSE IF Pending(cfc, call_index)
        THEN [st EXCEPT !.current_function_calls[PendingAt(cfc, call_index)]
                            .arguments = @ \o OrEmpty(tool_call.arguments)]
        ELSE [st EXCEPT !.current_function_calls =
                 Append(@, [index |-> call_index, name |-> "",
                            arguments |-> OrEmpty(tool_call.arguments)])]

\* Mutant: `=` for `+=` in the continuation branch.
AggregateFragmentOverwrite(st, tool_call) ==
    LET cfc == st.current_function_calls
        call_index == tool_call.index
    IN  IF NameTruthy(tool_call.name)
        THEN [function_calls |->
                 IF Pending(cfc, call_index)
                 THEN Append(st.function_calls,
                             Invocation(cfc[PendingAt(cfc, call_index)]))
                 ELSE st.function_calls,
              current_function_calls |->
                 DictSet(cfc, call_index, tool_call.name,
                         OrEmpty(tool_call.arguments))]
        ELSE IF Pending(cfc, call_index)
        THEN [st EXCEPT !.current_function_calls[PendingAt(cfc, call_index)]
                            .arguments = OrEmpty(tool_call.arguments)]
        ELSE st

\* The body of `for tool_call in delta.tool_calls` on the aggregation
\* state st = [function_calls, current_function_calls].
AggregateFragment(st, tool_call) ==
    LET cfc == st.current_function_calls
        call_index == tool_call.index
    IN  IF NameTruthy(tool_call.name)
        THEN [function_calls |->
                 IF Pending(cfc, call_index)
                 THEN Append(st.function_calls,
                             Invocation(cfc[PendingAt(cfc, call_index)]))
                 ELSE st.function_calls,
              current_function_calls |->
                 DictSet(cfc, call_index, tool_call.name,
                         OrEmpty(tool_call.arguments))]
        ELSE IF Pending(cfc, call_index)
        THEN [st EXCEPT !.current_function_calls[PendingAt(cfc, call_index)]
                            .arguments = @ \o OrEmpty(tool_call.arguments)]
        ELSE st

RECURSIVE AggregateFragments(_, _)
AggregateFragments(st, tool_calls) ==
    IF tool_calls = <<>> THEN st
    ELSE AggregateFragments(AggregateFragment(st, tool_calls[1]),
                            Tail(tool_calls))

\* Mutant: a pending invocation that gathered no argument text is dropped.
FinalizePendingNonEmpty(fcs, cfc) ==
    LET HasText(e) == e.arguments # <<>>
        kept == SelectSeq(cfc, HasText)
    IN  fcs \o [i \in 1..Len(kept) |-> Invocation(kept[i])]

\* `for call_index, func_call in current_function_calls.items():
\*      function_calls.append(func_call)`  -- dict order is insertion order.
FinalizePending(fcs, cfc) ==
    fcs \o [i \in 1..Len(cfc) |-> Invocation(cfc[i])]

---------------------------------------------------------------------------
(* The suggestion merger: lines 119-153                                    *)

NoError == ""

\* `" & ".join(xs)` on a sequence of Python str values.
RECURSIVE Join(_, _)
Join(sep, xs) ==
    IF xs = <<>> THEN ""
    ELSE IF Len(xs) = 1 THEN xs[1].s
    ELSE xs[1].s \o sep \o Join(sep, Tail(xs))

\* `severity_order.get(x, 2)` with
\* severity_order = {"high": 3, "medium": 2, "low": 1}
SeverityOrder(x) ==
    IF x.k = "str" /\ x.s = "high" THEN 3
    ELSE IF x.k = "str" /\ x.s = "medium" THEN 2
    ELSE IF x.k = "str" /\ x.s = "low" THEN 1
    ELSE 2

\* Mutant: the severity of the first issue, not the maximum.
MaxSeverityFirst(severities) == severities[1]

\* `max(severities, key=...)`: Python's max keeps the first maximal element.
RECURSIVE MaxSeverity(_)
MaxSeverity(severities) ==
    IF Len(severities) = 1 THEN severities[1]
    ELSE LET rest == MaxSeverity(Tail(severities))
         IN  IF SeverityOrder(rest) > SeverityOrder(severities[1])
             THEN rest ELSE severities[1]

\* Mutant: the legacy shape is not normalized.
TextIssuesNoLegacy(a) == Get(a, "issues", JArr(<<>>))

\* Mutant: the legacy triple is built whether or not there is a type.
TextIssuesLegacyAlways(a) ==
    LET text_issues == Get(a, "issues", JArr(<<>>))
    IN  IF ~Truthy(text_issues)
        THEN JArr(<<JObj([type |-> Get(a, "type", JStr("")),
                         severity |-> Get(a, "severity", JStr("medium")),
                         description |-> Get(a, "description", JStr(""))])>>)
        ELSE text_issues

\* Lines 119-127: the issues array, or the legacy flat triple as a
\* one-element list.
TextIssues(a) ==
    LET text_issues == Get(a, "issues", JArr(<<>>))
    IN  IF ~Truthy(text_issues) /\ Truthy(Get(a, "type", JNull))
        THEN JArr(<<JObj([type |-> Get(a, "type", JStr("")),
                         severity |-> Get(a, "severity", JStr("medium")),
                         description |-> Get(a, "description", JStr(""))])>>)
        ELSE text_issues

\* What lines 132-151 raise on text_issues, or NoError.  Iterating a str
\* or a dict yields str elements, `.get` exists on dicts only, `join`
\* takes str items only, and the key of a dict lookup must be hashable.
MergeError(text_issues) ==
    IF text_issues.k = "num" THEN "TypeError"
    ELSE IF text_issues.k \in {"str", "dict"} THEN "AttributeError"
    ELSE IF \E i \in 1..Len(text_issues.a) : text_issues.a[i].k # "dict"
    THEN "AttributeError"
    ELSE IF \E i \in 1..Len(text_issues.a) :
               Get(text_issues.a[i], "severity", JStr("medium")).k
                   \in {"list", "dict"}
    THEN "TypeError"
    ELSE IF \E i \in 1..Len(text_issues.a) :
               \/ Get(text_issues.a[i], "type", JStr("")).k # "str"
               \/ Get(text_issues.a[i], "description", JStr("")).k # "str"
    THEN "TypeError"
    ELSE NoError

\* Mutant: types and descriptions are de-duplicated before the join.
RECURSIVE Dedup(_)
Dedup(xs) ==
    IF xs = <<>> THEN <<>>
    ELSE LET rest == Dedup(Tail(xs))
         IN  IF \E i \in 1..Len(rest) : rest[i] = xs[1]
             THEN rest ELSE <<xs[1]>> \o rest

MergedSuggestionDedup(a, text_issues) ==
    LET n == Len(text_issues.a)
        types == [i \in 1..n |-> Get(text_issues.a[i], "type", JStr(""))]
        descriptions ==
            [i \in 1..n |-> Get(text_issues.a[i], "description", JStr(""))]
        severities ==
            [i \in 1..n |-> Get(text_issues.a[i], "severity", JStr("medium"))]
    IN  JObj([type |-> JStr(Join(" & ", Dedup(types))),
              severity |-> MaxSeverity(severities),
              paragraph |-> Get(a, "paragraph", JNum("1")),
              description |-> JStr(Join(" | ", Dedup(descriptions))),
              text |-> Get(a, "originalText", JStr("")),
              suggestion |-> Get(a, "replaceTo", JStr("")),
              originalText |-> Get(a, "originalText", JStr("")),
              replaceTo |-> Get(a, "replaceTo", JStr("")),
              issues |-> text_issues])

\* Lines 132-151: the single merged suggestion for a list of issue dicts.
MergedSuggestion(a, text_issues) ==
    LET n == Len(text_issues.a)
        types == [i \in 1..n |-> Get(text_issues.a[i], "type", JStr(""))]
        descriptions ==
            [i \in 1..n |-> Get(text_issues.a[i], "description", JStr(""))]
        severities ==
            [i \in 1..n |-> Get(text_issues.a[i], "severity", JStr("medium"))]
    IN  JObj([type |-> JStr(Join(" & ", types)),
              severity |-> MaxSeverity(severities),
              paragraph |-> Get(a, "paragraph", JNum("1")),
              description |-> JStr(Join(" | ", descriptions)),
              text |-> Get(a, "originalText", JStr("")),
              suggestion |-> Get(a, "replaceTo", JStr("")),
              originalText |-> Get(a, "originalText", JStr("")),
              replaceTo |-> Get(a, "replaceTo", JStr("")),
              issues |-> text_issues])

---------------------------------------------------------------------------
(* The dispatcher of the review cycle: lines 109-186                       *)

\* The two logger.error calls of an except handler of the review (lines
\* 155-156, 173-174): the handler and the raw argument text.
ParseFailure(site, fc) == [site |-> site, arguments |-> fc.arguments]

\* The one logger.error call of line 342: the handler and the text of the
\* exception, not the argument text.
ParseFailureMessage(site) ==
    [site |-> site, arguments |-> <<Lit("JSONDecodeError")>>]

\* `args.get('insert_after_text', '')[:50]` inside the f-string of line 171
Sliceable(v) == v.k \in {"str", "list"}

\* Mutant: an absent diagram_type or title stays absent (null).
DiagramInsertionNoDefaults(a) ==
    JObj([insert_after_text |-> Get(a, "insert_after_text", JStr("")),
          mermaid_syntax |-> Get(a, "mermaid_syntax", JStr("")),
          diagram_type |-> Get(a, "diagram_type", JNull),
          title |-> Get(a, "title", JNull)])

DiagramInsertion(a) ==
    JObj([insert_after_text |-> Get(a, "insert_after_text", JStr("")),
          mermaid_syntax |-> Get(a, "mermaid_syntax", JStr("")),
          diagram_type |-> Get(a, "diagram_type", JStr("flowchart")),
          title |-> Get(a, "title", JStr(""))])

\* Mutant: the JSONDecodeError is not caught.
CreateSuggestionNoCatch(st, func_call) ==
    LET parsed == JsonLoads(func_call.arguments)
        a == parsed.val
        text_issues == TextIssues(a)
    IN  IF ~parsed.ok THEN [st EXCEPT !.error = "JSONDecodeError"]
        ELSE IF a.k # "dict" THEN [st EXCEPT !.error = "AttributeError"]
        ELSE IF ~Truthy(text_issues) THEN st
        ELSE IF MergeError(text_issues) # NoError
        THEN [st EXCEPT !.error = MergeError(text_issues)]
        ELSE [st EXCEPT !.issues = Append(@, MergedSuggestion(a, text_issues))]

\* Lines 113-157: one create_suggestion invocation.
CreateSuggestion(st, func_call) ==
    LET parsed == JsonLoads(func_call.arguments)
        a == parsed.val
        text_issues == TextIssues(a)
    IN  IF ~parsed.ok
        THEN [st EXCEPT !.log =
                 Append(@, ParseFailure("review.create_suggestion", func_call))]
        ELSE IF a.k # "dict" THEN [st EXCEPT !.error = "AttributeError"]
        ELSE IF ~Truthy(text_issues) THEN st
        ELSE IF MergeError(text_issues) # NoError
        THEN [st EXCEPT !.error = MergeError(text_issues)]
        ELSE [st EXCEPT !.issues = Append(@, MergedSuggestion(a, text_issues))]

\* Lines 159-175: one insert_diagram invocation.
InsertDiagram(st, func_call) ==
    LET parsed == JsonLoads(func_call.arguments)
        a == parsed.val
    IN  IF ~parsed.ok
        THEN [st EXCEPT !.log =
                 Append(@, ParseFailure("review.insert_diagram", func_call))]
        ELSE IF a.k # "dict" THEN [st EXCEPT !.error = "AttributeError"]
        ELSE [st EXCEPT
                 !.diagram_insertions = Append(@, DiagramInsertion(a)),
                 !.error = IF Sliceable(Get(a, "insert_after_text", JStr("")))
                           THEN NoError ELSE "TypeError"]

\* Mutant: the arguments of an invocation of any other name are parsed too.
ReviewCallParsingAll(st, func_call) ==
    IF func_call.name = "create_suggestion" THEN CreateSuggestion(st, func_call)
    ELSE IF func_call.name = "insert_diagram" THEN InsertDiagram(st, func_call)
    ELSE IF ~JsonLoads(func_call.arguments).ok
    THEN [st EXCEPT !.error = "JSONDecodeError"]
    ELSE st

\* The body of `for func_call in function_calls` (lines 112-175).
ReviewCall(st, func_call) ==
    IF func_call.name = "create_suggestion" THEN CreateSuggestion(st, func_call)
    ELSE IF func_call.name = "insert_diagram" THEN InsertDiagram(st, func_call)
    ELSE st

\* The loop; an exception that no handler catches ends it.
RECURSIVE ProcessReview(_, _)
ProcessReview(st, fcs) ==
    IF fcs = <<>> \/ st.error # NoError THEN st
    ELSE ProcessReview(ReviewCall(st, fcs[1]), Tail(fcs))

ReviewStart == [issues |-> <<>>, diagram_insertions |-> <<>>, log |-> <<>>,
                error |-> NoError]

\* Lines 180-184: the response object.
Response(st) == JObj([issues |-> JArr(st.issues),
                      diagram_insertions |-> JArr(st.diagram_insertions)])

---------------------------------------------------------------------------
(* The dispatcher of the document-aware chat: lines 316-343                *)

\* f"\n```mermaid\n{...}\n```\n"
Fenced(v) == [part |-> "mermaid", doc |-> v]

DIAGRAM_INSERT == Lit("DIAGRAM_INSERT:")

ChatCall(st, func_call) ==
    LET parsed == JsonLoads(func_call.arguments)
        a == parsed.val
    IN  IF func_call.name = "create_diagram"
        THEN IF ~parsed.ok THEN st
             ELSE IF a.k # "dict" THEN [st EXCEPT !.error = "AttributeError"]
             ELSE [st EXCEPT !.yielded =
                      Append(@, <<Fenced(Get(a, "mermaid_syntax", JStr("")))>>)]
        ELSE IF func_call.name = "insert_diagram"
        THEN IF ~parsed.ok
             THEN [st EXCEPT !.log =
                      Append(@, ParseFailureMessage("chat.insert_diagram"))]
             ELSE IF a.k # "dict" THEN [st EXCEPT !.error = "AttributeError"]
             ELSE [st EXCEPT !.yielded =
                      Append(@, <<DIAGRAM_INSERT>>
                                    \o JsonDumps(DiagramInsertion(a)))]
        ELSE st

RECURSIVE ProcessChat(_, _)
ProcessChat(st, fcs) ==
    IF fcs = <<>> \/ st.error # NoError THEN st
    ELSE ProcessChat(ChatCall(st, fcs[1]), Tail(fcs))

---------------------------------------------------------------------------
(* The stream: the deltas the completion transport may deliver             *)

Slots == {0, 1}

\* A payload that has the fields of a suggestion and of a diagram.
StreamDoc ==
    JObj([originalText |-> JStr("a eraser"),
          replaceTo |-> JStr("an eraser"),
          paragraph |-> JNum("2"),
          issues |-> JArr(<<JObj([type |-> JStr("Antecedent Basis"),
                                  severity |-> JStr("high"),
                                  description |-> JStr("d1")])>>),
          insert_after_text |-> JStr("a pencil"),
          mermaid_syntax |-> JStr("graph TD")])

ChunkX == <<FirstHalf(StreamDoc)>>
ChunkY == <<SecondHalf(StreamDoc)>>

StreamNames(m) ==
    IF m = "review" THEN {"create_suggestion", "insert_diagram"}
    ELSE {"create_diagram", "insert_diagram"}

Fragment(index, name, arguments) ==
    [index |-> index, name |-> name, arguments |-> arguments]

\* A fragment that bears a name opens a slot, with or without a first chunk.
NamedFragments(m) ==
    {Fragment(i, n, NoneText) : i \in Slots, n \in StreamNames(m)}
        \cup {Fragment(i, "insert_diagram", Some(ChunkX)) : i \in Slots}

\* The two ways a fragment has no name: the field is absent, or it is empty.
FalsyName(i) == IF i = 0 THEN None ELSE ""

NamelessFragments ==
    {Fragment(i, FalsyName(i), a) : i \in Slots,
                                    a \in {Some(ChunkX), Some(ChunkY)}}

ContentDelta(t) == [content |-> Some(t), tool_calls |-> <<>>]
ToolDelta(f) == [content |-> NoneText, tool_calls |-> <<f>>]

StreamDeltas(m) ==
    {ContentDelta(<<Lit("Sure.")>>)}
        \cup {ToolDelta(f) : f \in NamedFragments(m) \cup NamelessFragments}

---------------------------------------------------------------------------
(* The generators                                                          *)

\* Mutant: the content of a fragment is not passed on when it arrives.
ConsumeDeltaBuffering(delta) ==
    /\ pc = "stream"
    /\ Len(deltas) < MaxDeltas
    /\ LET st == AggregateFragments(
                     [function_calls |-> function_calls,
                      current_function_calls |-> current_function_calls],
                     delta.tool_calls)
       IN  /\ function_calls' = st.function_calls
           /\ current_function_calls' = st.current_function_calls
    /\ deltas' = Append(deltas, delta)
    /\ UNCHANGED <<session, mode, pc, issues, diagram_insertions, yielded, log,
                   error, sent>>

\* One iteration of `async for chunk in stream` (lines 70-97, 286-310).
ConsumeDelta(delta) ==
    /\ pc = "stream"
    /\ Len(deltas) < MaxDeltas
    /\ LET st == AggregateFragments(
                     [function_calls |-> function_calls,
                      current_function_calls |-> current_function_calls],
                     delta.tool_calls)
       IN  /\ function_calls' = st.function_calls
           /\ current_function_calls' = st.current_function_calls
    /\ deltas' = Append(deltas, delta)
    /\ yielded' = IF mode = "chat" /\ OrEmpty(delta.content) # <<>>
                  THEN Append(yielded, delta.content.text)
                  ELSE yielded
    /\ UNCHANGED <<session, mode, pc, issues, diagram_insertions, log, error, sent>>

\* The stream ends in review_document_with_functions: lines 99-186.
ReviewStreamEnd ==
    /\ pc = "stream"
    /\ mode = "review"
    /\ function_calls' = FinalizePending(function_calls, current_function_calls)
    /\ LET st == ProcessReview(ReviewStart, function_calls')
       IN  /\ issues' = st.issues
           /\ diagram_insertions' = st.diagram_insertions
           /\ log' = log \o st.log
           /\ error' = st.error
           /\ IF st.error = NoError
              THEN /\ yielded' = Append(yielded, JsonDumps(Response(st)))
                   /\ pc' = "yielded"
              ELSE /\ yielded' = yielded
                   /\ pc' = "raised"
    /\ UNCHANGED <<session, mode, deltas, current_function_calls, sent>>

\* The stream ends in chat_with_document_context: lines 312-343.
ChatStreamEnd ==
    /\ pc = "stream"
    /\ mode = "chat"
    /\ function_calls' = FinalizePending(function_calls, current_function_calls)
    /\ LET st == ProcessChat([yielded |-> yielded, log |-> log,
                              error |-> NoError], function_calls')
       IN  /\ yielded' = st.yielded
           /\ log' = st.log
           /\ error' = st.error
           /\ pc' = IF st.error = NoError THEN "returned" ELSE "raised"
    /\ UNCHANGED <<session, mode, deltas, current_function_calls, issues,
                   diagram_insertions, sent>>

\* Mutant: the pending invocations are finalized on the way out.
StreamFailFinalizing ==
    /\ pc = "stream"
    /\ error' = "StreamError"
    /\ pc' = "raised"
    /\ function_calls' = FinalizePending(function_calls, current_function_calls)
    /\ UNCHANGED <<session, mode, deltas, current_function_calls,
                   issues, diagram_insertions, yielded, log, sent>>

\* `async for` raises: the transport failed between two deltas.
StreamFail ==
    /\ pc = "stream"
    /\ error' = "StreamError"
    /\ pc' = "raised"
    /\ UNCHANGED <<session, mode, deltas, function_calls, current_function_calls,
                   issues, diagram_insertions, yielded, log, sent>>

\* The task is cancelled while it awaits the next delta.
StreamCancel ==
    /\ pc = "stream"
    /\ error' = "CancelledError"
    /\ pc' = "raised"
    /\ UNCHANGED <<session, mode, deltas, function_calls, current_function_calls,
                   issues, diagram_insertions, yielded, log, sent>>

---------------------------------------------------------------------------
(* The endpoints                                                           *)

Msg(type, data, response) ==
    [type |-> type, data |-> data, response |-> response]

\* What websocket.send_text raises once the peer is gone.
SendError == "WebSocketDisconnect"

RECURSIVE JoinChunks(_)
JoinChunks(chunks) ==
    IF chunks = <<>> THEN <<>> ELSE chunks[1] \o JoinChunks(Tail(chunks))

NonEmpty(chunk) == chunk # <<>>

\* Mutant: the result is sent and an error raised after it is reported too.
WsResultThenError ==
    /\ pc = "yielded"
    /\ mode = "review"
    /\ connected
    /\ sent' = sent \o <<Msg("ai_suggestions",
                              JsonLoads(JoinChunks(yielded)).val, <<>>),
                          Msg("ai_error", JStr("AttributeError"), <<>>)>>
    /\ pc' = "done"
    /\ UNCHANGED <<session, mode, deltas, function_calls, current_function_calls,
                   issues, diagram_insertions, yielded, log, error>>

\* websocket_enhanced_endpoint, lines 96-123: the generator has yielded.
WsResult ==
    /\ pc = "yielded"
    /\ mode = "review"
    /\ LET response_chunks == SelectSeq(yielded, NonEmpty)
           parsed_result == JsonLoads(JoinChunks(response_chunks))
           response == IF parsed_result.ok
                       THEN Msg("ai_suggestions", parsed_result.val, <<>>)
                       ELSE Msg("parsing_error", JNull, <<>>)
       IN  IF connected
           THEN /\ sent' = Append(sent, response)
                /\ pc' = "done"
                /\ error' = error
           ELSE \* send_text raises inside the `try` of line 75
                /\ sent' = sent
                /\ pc' = "raised"
                /\ error' = SendError
    /\ UNCHANGED <<session, mode, deltas, function_calls, current_function_calls,
                   issues, diagram_insertions, yielded, log>>

\* Mutant: the failure is logged and the endpoint ends without a report.
WsErrorCloses ==
    /\ pc = "raised"
    /\ mode = "review"
    /\ error # "CancelledError"
    /\ log' = Append(log, [site |-> "endpoint.analysis",
                            arguments |-> <<Lit(error)>>])
    /\ pc' = "ended"
    /\ UNCHANGED <<session, mode, deltas, function_calls, current_function_calls,
                   issues, diagram_insertions, yielded, error, sent>>

\* websocket_enhanced_endpoint, lines 125-132: `except Exception`; when the
\* send of line 132 raises, the handlers of lines 134-145 end the endpoint.
WsError ==
    /\ pc = "raised"
    /\ mode = "review"
    /\ error # "CancelledError"
    /\ log' = Append(log, [site |-> "endpoint.analysis",
                            arguments |-> <<Lit(error)>>])
    /\ IF connected
       THEN /\ sent' = Append(sent, Msg("ai_error", JStr(error), <<>>))
            /\ pc' = "done"
       ELSE /\ sent' = sent
            /\ pc' = "ended"
    /\ UNCHANGED <<session, mode, deltas, function_calls, current_function_calls,
                   issues, diagram_insertions, yielded, error>>

\* `chunk.startswith("DIAGRAM_INSERT:")`
IsDirective(chunk) == chunk # <<>> /\ chunk[1] = DIAGRAM_INSERT
IsParsedDirective(chunk) == IsDirective(chunk) /\ JsonLoads(Tail(chunk)).ok
IsResponseChunk(chunk) == chunk # <<>> /\ ~IsDirective(chunk)

\* chat_with_ai, lines 164-188.
ChatResult(chunks) ==
    LET directives == SelectSeq(chunks, IsParsedDirective)
        insertions == [i \in 1..Len(directives) |->
                          JsonLoads(Tail(directives[i])).val]
    IN  Msg("chat_result",
            IF insertions # <<>>
            THEN JObj([diagram_insertions |-> JArr(insertions)])
            ELSE JObj(<<>>),
            JoinChunks(SelectSeq(chunks, IsResponseChunk)))

ChatReturn ==
    /\ pc = "returned"
    /\ mode = "chat"
    /\ sent' = Append(sent, ChatResult(yielded))
    /\ pc' = "done"
    /\ UNCHANGED <<session, mode, deltas, function_calls, current_function_calls,
                   issues, diagram_insertions, yielded, log, error>>

\* chat_with_ai, lines 190-192: HTTPException(status_code=500).
ChatError ==
    /\ pc = "raised"
    /\ mode = "chat"
    /\ error # "CancelledError"
    /\ log' = Append(log, [site |-> "endpoint.chat",
                            arguments |-> <<Lit(error)>>])
    /\ sent' = Append(sent, Msg("http_500", JStr(error), <<>>))
    /\ pc' = "done"
    /\ UNCHANGED <<session, mode, deltas, function_calls, current_function_calls,
                   issues, diagram_insertions, yielded, error>>

\* CancelledError is no Exception: no handler of either endpoint catches it.
Cancelled ==
    /\ pc = "raised"
    /\ error = "CancelledError"
    /\ pc' = "cancelled"
    /\ UNCHANGED <<session, mode, deltas, function_calls, current_function_calls,
                   issues, diagram_insertions, yielded, log, error, sent>>

---------------------------------------------------------------------------
(* Documents and the text normalizer (app/internal/text_utils.py)          *)

EmptyDocument == "<p></p>"
ClaimsDocument == "<p>A pencil comprising a eraser.</p>"
Documents == {EmptyDocument, ClaimsDocument}

\* Markup to plain text.
html_to_plain_text(html_content) ==
    IF html_content = EmptyDocument THEN ""
    ELSE "A pencil comprising a eraser."

\* (is_valid, error_message): a text must have reviewable characters.
validate_text_for_ai(plain_text) ==
    IF plain_text = ""
    THEN [is_valid |-> FALSE, error_message |-> "empty document"]
    ELSE [is_valid |-> TRUE, error_message |-> ""]

\* The channel and the service while one cycle runs: the service was built,
\* one reviewable document was received and the transport opened for it.
InCycle ==
    /\ environ = [OPENAI_API_KEY |-> "sk-key", OPENAI_MODEL |-> None]
    /\ connected = TRUE
    /\ docs = <<ClaimsDocument>>
    /\ opened = <<1>>
    /\ closed = FALSE

---------------------------------------------------------------------------
(* Specification of one cycle over every stream of at most MaxDeltas       *)

Init ==
    /\ mode \in {"review", "chat"}
    /\ pc = "stream"
    /\ deltas = <<>>
    /\ function_calls = <<>>
    /\ current_function_calls = <<>>
    /\ issues = <<>>
    /\ diagram_insertions = <<>>
    /\ yielded = <<>>
    /\ log = <<>>
    /\ error = NoError
    /\ sent = <<>>
    /\ InCycle

Consume == \E delta \in StreamDeltas(mode) : ConsumeDelta(delta)

Next ==
    \/ Consume
    \/ ReviewStreamEnd
    \/ ChatStreamEnd
    \/ StreamFail
    \/ StreamCancel
    \/ WsResult
    \/ WsError
    \/ ChatReturn
    \/ ChatError
    \/ Cancelled

Spec == Init /\ [][Next]_vars

---------------------------------------------------------------------------
(* Specifications of the dispatcher and of the merger: the stream has      *)
(* delivered one whole invocation per slot and is about to end             *)

\* The deltas that deliver `calls`, one name-bearing fragment each.
DeltasOf(calls) ==
    [i \in 1..Len(calls) |->
        ToolDelta(Fragment(i - 1, calls[i].name, Some(calls[i].arguments)))]

RECURSIVE Replay(_, _)
Replay(st, ds) ==
    IF ds = <<>> THEN st
    ELSE Replay(AggregateFragments(st, ds[1].tool_calls), Tail(ds))

AggregationStart == [function_calls |-> <<>>, current_function_calls |-> <<>>]

InitAfterIn(m, calls) ==
    /\ mode = m
    /\ pc = "stream"
    /\ deltas = DeltasOf(calls)
    /\ function_calls = Replay(AggregationStart, deltas).function_calls
    /\ current_function_calls =
           Replay(AggregationStart, deltas).current_function_calls
    /\ issues = <<>>
    /\ diagram_insertions = <<>>
    /\ yielded = <<>>
    /\ log = <<>>
    /\ error = NoError
    /\ sent = <<>>
    /\ InCycle

InitAfter(calls) == InitAfterIn("review", calls)

SeqsUpTo(S, n) == UNION {[1..k -> S] : k \in 0..n}

\* Payloads of the merger specification: issue lists of the declared
\* shape, whose severity may be outside the enumeration or absent.
IssueSeverities == {"high", "medium", "low", "critical"}

IssueSet ==
    {JObj([type |-> JStr("Structure"), severity |-> JStr(v),
           description |-> JStr("d1")]) : v \in IssueSeverities}
    \cup {JObj([type |-> JStr("Punctuation"), severity |-> JStr(v),
                description |-> JStr("d2")]) : v \in IssueSeverities}
    \cup {JObj([type |-> JStr("Ambiguity"), description |-> JStr("d3")])}

IssuePayloads ==
    UNION {{JObj([issues |-> JArr(l)]),
            JObj([originalText |-> JStr("a eraser"),
                  replaceTo |-> JStr("an eraser"),
                  paragraph |-> JNum("2"),
                  issues |-> JArr(l)])} : l \in SeqsUpTo(IssueSet, MaxIssues)}

LegacyPayloads ==
    UNION {{JObj([type |-> JStr(t), severity |-> JStr(v),
                  description |-> JStr("d")]),
            JObj([type |-> JStr(t), severity |-> JStr(v),
                  description |-> JStr("d"),
                  originalText |-> JStr("a eraser"),
                  replaceTo |-> JStr("an eraser"),
                  paragraph |-> JNum("2")]),
            JObj([type |-> JStr(t), severity |-> JStr(v),
                  description |-> JStr("d"),
                  issues |-> JArr(<<>>)])} :
           t \in {"Ambiguity", ""}, v \in {"low", "high", "critical"}}
    \cup {JObj([type |-> JStr("Ambiguity")]), JObj(<<>>)}

MergePayloads == IssuePayloads \cup LegacyPayloads

InitMerge ==
    \E p \in MergePayloads :
        InitAfter(<<[name |-> "create_suggestion", arguments |-> <<Whole(p)>>]>>)

NextMerge == ReviewStreamEnd \/ WsResult

SpecMerge == InitMerge /\ [][NextMerge]_vars

\* Invocations of the dispatcher specification: well-formed payloads,
\* unparsable texts, and well-formed JSON that is not of the declared shape.
Doc2 ==
    JObj([originalText |-> JStr("said light"),
          replaceTo |-> JStr("the light"),
          paragraph |-> JNum("3"),
          issues |-> JArr(<<JObj([type |-> JStr("Structure"),
                                  severity |-> JStr("low"),
                                  description |-> JStr("d2")]),
                            JObj([type |-> JStr("Ambiguity"),
                                  severity |-> JStr("medium"),
                                  description |-> JStr("d3")])>>),
          insert_after_text |-> JStr("a light"),
          mermaid_syntax |-> JStr("sequenceDiagram"),
          diagram_type |-> JStr("sequence"),
          title |-> JStr("Steps")])

BadIssuesDoc ==
    JObj([originalText |-> JStr("a eraser"), replaceTo |-> JStr("an eraser"),
          paragraph |-> JNum("2"), issues |-> JArr(<<JStr("Structure")>>),
          insert_after_text |-> JNull])

BadTypeDoc ==
    JObj([originalText |-> JStr("a eraser"), replaceTo |-> JStr("an eraser"),
          paragraph |-> JNum("2"),
          issues |-> JArr(<<JObj([type |-> JNum("7"),
                                  severity |-> JStr("low"),
                                  description |-> JStr("d1")])>>),
          insert_after_text |-> JNum("7")])

WellFormedTexts == {<<Whole(StreamDoc)>>, <<Whole(Doc2)>>}
UnparsableTexts == {<<>>, <<FirstHalf(StreamDoc)>>}
MisshapenTexts ==
    {<<Whole(JArr(<<>>))>>, <<Whole(JNull)>>, <<Whole(JStr("high"))>>,
     <<Whole(BadIssuesDoc)>>, <<Whole(BadTypeDoc)>>}

\* Well-formed objects that name no issue: no issues array and no type, or
\* an empty array with an empty type.
NoIssueTexts ==
    {<<Whole(JObj([originalText |-> JStr("a eraser")]))>>,
     <<Whole(JObj([issues |-> JArr(<<>>), type |-> JStr(""),
                   severity |-> JStr("high")]))>>}

DispatchCalls ==
    [name : {"create_suggestion"},
     arguments : WellFormedTexts \cup UnparsableTexts \cup MisshapenTexts
                     \cup NoIssueTexts]
    \cup [name : {"insert_diagram"},
          arguments : {<<Whole(StreamDoc)>>, <<Whole(Doc2)>>,
                       <<FirstHalf(StreamDoc)>>, <<Whole(JArr(<<>>))>>,
                       <<Whole(BadTypeDoc)>>}]
    \cup [name : {"create_diagram"},
          arguments : {<<Whole(StreamDoc)>>, <<FirstHalf(StreamDoc)>>}]

InitDispatch == \E calls \in SeqsUpTo(DispatchCalls, MaxCalls) : InitAfter(calls)

NextDispatch == ReviewStreamEnd \/ WsResult \/ WsError

SpecDispatch == InitDispatch /\ [][NextDispatch]_vars

---------------------------------------------------------------------------
(* Specification of the two dispatchers over invocations of every name     *)

\* get_weather is in no tool catalog; create_diagram is not handled by the
\* review dispatcher and create_suggestion not by the chat dispatcher.
NameCalls ==
    [name : {"create_suggestion", "create_diagram", "get_weather"},
     arguments : {<<Whole(StreamDoc)>>, <<FirstHalf(StreamDoc)>>}]
    \cup [name : {"insert_diagram"},
          arguments : {<<Whole(Doc2)>>, <<FirstHalf(Doc2)>>,
                       <<Whole(JArr(<<>>))>>}]

InitNames ==
    \E m \in {"review", "chat"}, calls \in SeqsUpTo(NameCalls, MaxCalls) :
        InitAfterIn(m, calls)

NextNames ==
    \/ ReviewStreamEnd
    \/ ChatStreamEnd
    \/ WsResult
    \/ WsError
    \/ ChatReturn
    \/ ChatError

SpecNames == InitNames /\ [][NextNames]_vars

---------------------------------------------------------------------------
(* Specification of one chat cycle: chat_with_ai over                      *)
(* chat_with_document_context                                              *)

\* The content of a fragment may be any text: an ordinary sentence, the
\* empty string, or a text that begins like an insertion directive.
ChatContents ==
    {<<Lit("Sure.")>>, <<>>, <<DIAGRAM_INSERT, Whole(StreamDoc)>>}

\* Whole invocations, one fragment each; get_weather is in no tool catalog.
ChatFragments ==
    {Fragment(0, "create_diagram", Some(<<Whole(StreamDoc)>>)),
     Fragment(1, "insert_diagram", Some(<<Whole(Doc2)>>)),
     Fragment(1, "insert_diagram", Some(<<FirstHalf(StreamDoc)>>)),
     Fragment(0, "get_weather", Some(<<FirstHalf(StreamDoc)>>))}

ChatDeltas ==
    {ContentDelta(t) : t \in ChatContents}
        \cup {ToolDelta(f) : f \in ChatFragments}

InitChat ==
    /\ mode = "chat"
    /\ pc = "stream"
    /\ deltas = <<>>
    /\ function_calls = <<>>
    /\ current_function_calls = <<>>
    /\ issues = <<>>
    /\ diagram_insertions = <<>>
    /\ yielded = <<>>
    /\ log = <<>>
    /\ error = NoError
    /\ sent = <<>>
    /\ InCycle

ConsumeChat == \E delta \in ChatDeltas : ConsumeDelta(delta)

NextChat ==
    \/ ConsumeChat
    \/ ChatStreamEnd
    \/ StreamFail
    \/ StreamCancel
    \/ ChatReturn
    \/ ChatError
    \/ Cancelled

SpecChat == InitChat /\ [][NextChat]_vars

---------------------------------------------------------------------------
(* The session of the duplex channel: websocket_enhanced_endpoint          *)

MaxDocs == 3    \* documents received on one channel

OPENAI_API_KEY == environ.OPENAI_API_KEY

OPENAI_MODEL ==
    IF environ.OPENAI_MODEL \notin {None, ""} THEN environ.OPENAI_MODEL
    ELSE "gpt-4o"

\* Mutant: only the credential is looked at, and only for being unset.
get_ai_enhanced_unset_only(model, api_key) ==
    IF api_key = None
    THEN [ok |-> FALSE, error |-> "Both API key and model need to be set"]
    ELSE [ok |-> TRUE, error |-> NoError]

get_ai_enhanced(model, api_key) ==
    IF api_key \in {None, ""} \/ model \in {None, ""}
    THEN [ok |-> FALSE, error |-> "Both API key and model need to be set"]
    ELSE [ok |-> TRUE, error |-> NoError]

cycle == <<deltas, function_calls, current_function_calls, issues,
           diagram_insertions, yielded, error>>

\* Lines 36-59: accept, build the service, announce it or give up.
WsAccept ==
    /\ pc = "accept"
    /\ LET ai == get_ai_enhanced(OPENAI_MODEL, OPENAI_API_KEY)
       IN  IF ~connected
           THEN \* the send of line 49 or 57 raises and nothing catches it
                /\ sent' = sent
                /\ closed' = closed
                /\ pc' = "ended"
           ELSE IF ai.ok
           THEN /\ sent' = Append(sent, Msg("connection_success", JNull, <<>>))
                /\ closed' = closed
                /\ pc' = "receive"
           ELSE /\ sent' = Append(sent, Msg("ai_error", JStr(ai.error), <<>>))
                /\ closed' = TRUE
                /\ pc' = "ended"
    /\ UNCHANGED <<mode, cycle, log, environ, connected, docs, opened>>

\* Line 64: receive_text returns the next document.
WsReceive(html_content) ==
    /\ pc \in {"receive", "done"}
    /\ mode = "review"
    /\ connected
    /\ Len(docs) < MaxDocs
    /\ docs' = Append(docs, html_content)
    /\ pc' = "received"
    /\ UNCHANGED <<mode, cycle, log, sent, environ, connected, opened, closed>>

\* Line 64 raises WebSocketDisconnect: lines 134-135.
WsDisconnected ==
    /\ pc \in {"receive", "done"}
    /\ mode = "review"
    /\ ~connected
    /\ pc' = "ended"
    /\ UNCHANGED <<mode, cycle, log, sent, session>>

\* The send of line 73 raises outside the inner `try`: lines 134-145.
WsProcessingFails ==
    /\ pc = "received"
    /\ ~connected
    /\ pc' = "ended"
    /\ UNCHANGED <<mode, cycle, log, sent, session>>

\* Mutant: the validation error is sent without the processing-started
\* message before it.
WsValidationErrorUnannounced ==
    /\ pc = "received"
    /\ connected
    /\ LET plain_text == html_to_plain_text(docs[Len(docs)])
           validation == validate_text_for_ai(plain_text)
       IN  /\ ~validation.is_valid
           /\ sent' = Append(sent,
                             Msg("validation_error",
                                 JStr(validation.error_message), <<>>))
    /\ pc' = "done"
    /\ UNCHANGED <<mode, cycle, log, session>>

\* Lines 68-90: the document is not reviewable.
WsValidationError ==
    /\ pc = "received"
    /\ connected
    /\ LET plain_text == html_to_plain_text(docs[Len(docs)])
           validation == validate_text_for_ai(plain_text)
       IN  /\ ~validation.is_valid
           /\ sent' = sent \o
                  <<Msg("processing_start", JNull, <<>>),
                    Msg("validation_error", JStr(validation.error_message),
                        <<>>)>>
    /\ pc' = "done"
    /\ UNCHANGED <<mode, cycle, log, session>>

\* Mutant: the completed invocations of the cycle before are kept.
FreshCycleKeeping(calls) ==
    [function_calls |->
         function_calls \o Replay(AggregationStart, DeltasOf(calls)).function_calls,
     current_function_calls |->
         Replay(AggregationStart, DeltasOf(calls)).current_function_calls]

\* Lines 65-97 of ai_enhanced.py for a stream that delivers `calls`: every
\* call of the generator starts from its own empty lists.
FreshCycle(calls) == Replay(AggregationStart, DeltasOf(calls))

\* Mutant: the transport is opened before the text is validated.
WsReviewUnvalidated(calls) ==
    /\ pc = "received"
    /\ connected
    /\ sent' = Append(sent, Msg("processing_start", JNull, <<>>))
    /\ opened' = Append(opened, Len(docs))
    /\ deltas' = DeltasOf(calls)
    /\ function_calls' = FreshCycle(calls).function_calls
    /\ current_function_calls' = FreshCycle(calls).current_function_calls
    /\ issues' = <<>>
    /\ diagram_insertions' = <<>>
    /\ yielded' = <<>>
    /\ error' = NoError
    /\ pc' = "stream"
    /\ UNCHANGED <<mode, log, environ, connected, docs, closed>>

\* Lines 68-96 and ai_enhanced.py lines 52-97: the document is reviewable,
\* the transport is opened and the stream delivers `calls`.
WsReview(calls) ==
    /\ pc = "received"
    /\ connected
    /\ validate_text_for_ai(html_to_plain_text(docs[Len(docs)])).is_valid
    /\ sent' = Append(sent, Msg("processing_start", JNull, <<>>))
    /\ opened' = Append(opened, Len(docs))
    /\ deltas' = DeltasOf(calls)
    /\ function_calls' = FreshCycle(calls).function_calls
    /\ current_function_calls' = FreshCycle(calls).current_function_calls
    /\ issues' = <<>>
    /\ diagram_insertions' = <<>>
    /\ yielded' = <<>>
    /\ error' = NoError
    /\ pc' = "stream"
    /\ UNCHANGED <<mode, log, environ, connected, docs, closed>>

\* The peer goes away; the endpoint learns of it at its next send or receive.
Disconnect ==
    /\ mode = "review"
    /\ pc \notin {"ended", "cancelled"}
    /\ connected
    /\ connected' = FALSE
    /\ UNCHANGED <<mode, pc, cycle, log, sent, environ, docs, opened, closed>>

SessionCalls ==
    [name : {"create_suggestion"},
     arguments : {<<Whole(StreamDoc)>>, <<Whole(JArr(<<>>))>>}]

SessionStreams == SeqsUpTo(SessionCalls, 1)

EnvironValues ==
    [OPENAI_API_KEY : {None, "", "sk-key"}, OPENAI_MODEL : {None, "gpt-4o-mini"}]

InitSession ==
    /\ mode = "review"
    /\ pc = "accept"
    /\ environ \in EnvironValues
    /\ connected = TRUE
    /\ docs = <<>>
    /\ opened = <<>>
    /\ closed = FALSE
    /\ deltas = <<>>
    /\ function_calls = <<>>
    /\ current_function_calls = <<>>
    /\ issues = <<>>
    /\ diagram_insertions = <<>>
    /\ yielded = <<>>
    /\ log = <<>>
    /\ error = NoError
    /\ sent = <<>>

Receive == \E html_content \in Documents : WsReceive(html_content)

Review == \E calls \in SessionStreams : WsReview(calls)

NextSession ==
    \/ WsAccept
    \/ Receive
    \/ WsDisconnected
    \/ WsProcessingFails
    \/ WsValidationError
    \/ Review
    \/ ReviewStreamEnd
    \/ StreamFail
    \/ StreamCancel
    \/ WsResult
    \/ WsError
    \/ Cancelled
    \/ Disconnect

SpecSession == InitSession /\ [][NextSession]_vars

---------------------------------------------------------------------------
(* Specification of chat_with_user: lines 207-227                          *)

\* Lines 217-227: one tool call of one delta. The arguments of the fragment
\* alone are parsed; json.loads(None) raises TypeError, which the handler
\* of JSONDecodeError does not catch.
UserFragment(st, tool_call) ==
    IF tool_call.name # "create_diagram" THEN st
    ELSE IF ~tool_call.arguments.some THEN [st EXCEPT !.error = "TypeError"]
    ELSE LET parsed == JsonLoads(tool_call.arguments.text)
             a == parsed.val
         IN  IF ~parsed.ok THEN st
             ELSE IF a.k # "dict" THEN [st EXCEPT !.error = "AttributeError"]
             ELSE [st EXCEPT !.yielded =
                      Append(@, <<Fenced(Get(a, "mermaid_syntax", JStr("")))>>)]

\* `for tool_call in delta.tool_calls`; an uncaught exception ends it.
RECURSIVE UserFragments(_, _)
UserFragments(st, tool_calls) ==
    IF tool_calls = <<>> \/ st.error # NoError THEN st
    ELSE UserFragments(UserFragment(st, tool_calls[1]), Tail(tool_calls))

\* One iteration of `async for chunk in stream` (lines 207-227).
UserConsume(delta) ==
    /\ pc = "stream"
    /\ mode = "user"
    /\ Len(deltas) < MaxDeltas
    /\ deltas' = Append(deltas, delta)
    /\ LET live == IF OrEmpty(delta.content) # <<>>
                   THEN Append(yielded, delta.content.text)
                   ELSE yielded
           st == UserFragments([yielded |-> live, error |-> NoError],
                               delta.tool_calls)
       IN  /\ yielded' = st.yielded
           /\ error' = st.error
           /\ pc' = IF st.error = NoError THEN "stream" ELSE "raised"
    /\ UNCHANGED <<session, mode, function_calls, current_function_calls,
                   issues, diagram_insertions, log, sent>>

\* The stream ends: the generator returns.
UserStreamEnd ==
    /\ pc = "stream"
    /\ mode = "user"
    /\ pc' = "returned"
    /\ UNCHANGED <<session, mode, deltas, function_calls, current_function_calls,
                   issues, diagram_insertions, yielded, log, error, sent>>

\* Inline-diagram invocations as the transport delivers them: the arguments
\* whole on the name-bearing fragment, split over two fragments, or absent
\* (None or the empty string) on the name-bearing fragment.
UserFragmentSet ==
    {Fragment(0, "create_diagram", a) :
         a \in {Some(<<Whole(StreamDoc)>>), Some(ChunkX), Some(<<>>), NoneText}}
        \cup {Fragment(0, None, Some(ChunkY)),
              Fragment(0, None, Some(<<Whole(StreamDoc)>>))}

UserDeltas ==
    {ContentDelta(<<Lit("Sure.")>>)} \cup {ToolDelta(f) : f \in UserFragmentSet}

InitUser ==
    /\ mode = "user"
    /\ pc = "stream"
    /\ deltas = <<>>
    /\ function_calls = <<>>
    /\ current_function_calls = <<>>
    /\ issues = <<>>
    /\ diagram_insertions = <<>>
    /\ yielded = <<>>
    /\ log = <<>>
    /\ error = NoError
    /\ sent = <<>>
    /\ InCycle

ConsumeUser == \E delta \in UserDeltas : UserConsume(delta)

NextUser ==
    \/ ConsumeUser
    \/ UserStreamEnd
    \/ StreamFail
    \/ StreamCancel

SpecUser == InitUser /\ [][NextUser]_vars

---------------------------------------------------------------------------
(* Reading the history                                                     *)

RECURSIVE AllFragments(_)
AllFragments(ds) ==
    IF ds = <<>> THEN <<>> ELSE ds[1].tool_calls \o AllFragments(Tail(ds))

\* The stream was consumed to its end (it neither failed nor was cancelled).
StreamEnded == pc # "stream" /\ error \notin {"StreamError", "CancelledError"}

\* The concatenation, in order, of the argument chunks of slot `slot`.
RECURSIVE ChunksFor(_, _)
ChunksFor(frags, slot) ==
    IF frags = <<>> THEN <<>>
    ELSE (IF frags[1].index = slot THEN OrEmpty(frags[1].arguments) ELSE <<>>)
             \o ChunksFor(Tail(frags), slot)

IsNamed(f) == NameTruthy(f.name)

\* Every name-bearing fragment uses a slot that no earlier fragment used.
FreshSlots(frags) ==
    \A j \in 1..Len(frags) :
        IsNamed(frags[j]) => \A i \in 1..(j - 1) : frags[i].index # frags[j].index

SlotsOf(frags) == {frags[i].index : i \in 1..Len(frags)}

---------------------------------------------------------------------------
(* C1 *)

---------------------------------------------------------------------------
(* C2 *)

LastFragment == deltas'[Len(deltas')].tool_calls[1]

\* A step that consumes a name-bearing fragment for a slot that is pending.
ReuseStep ==
    /\ pc = "stream"
    /\ Len(deltas') = Len(deltas) + 1
    /\ deltas'[Len(deltas')].tool_calls # <<>>
    /\ IsNamed(LastFragment)
    /\ Pending(current_function_calls, LastFragment.index)

ReuseExample ==
    <<Fragment(0, "create_suggestion", NoneText),
      Fragment(0, None, Some(ChunkX)),
      Fragment(0, "insert_diagram", NoneText),
      Fragment(0, None, Some(ChunkY))>>

\* C2: a name-bearing fragment for a pending slot first appends the
\* pending occupant, with the arguments accumulated so far, to the completed
\* list and then starts the new invocation with fresh arguments (those of
\* the fragment itself); and the four fragments (0, A), (0, x), (0, B),
\* (0, y) end with exactly the completed invocations {A, x} then {B, y}.
C2_SlotReuse ==
    [][/\ ReuseStep =>
           LET i == PendingAt(current_function_calls, LastFragment.index)
           IN  /\ function_calls' =
                      Append(function_calls,
                             [name |-> current_function_calls[i].name,
                              arguments |-> current_function_calls[i].arguments])
               /\ current_function_calls'[i] =
                      [index |-> LastFragment.index,
                       name |-> LastFragment.name,
                       arguments |-> OrEmpty(LastFragment.arguments)]
               /\ Len(current_function_calls') = Len(current_function_calls)
       /\ (StreamEnded /\ AllFragments(deltas) = ReuseExample)' =>
              function_calls' =
                  <<[name |-> "create_suggestion", arguments |-> ChunkX],
                    [name |-> "insert_diagram", arguments |-> ChunkY]>>]_vars

\* The example stream of C2 was consumed to its end.
C2_Witness ==
    /\ StreamEnded
    /\ AllFragments(deltas) = ReuseExample
    /\ Len(function_calls) = 2

---------------------------------------------------------------------------
(* C3 *)

\* The pending entries in ascending slot order.
RECURSIVE AscendingSlots(_)
AscendingSlots(cfc) ==
    IF cfc = <<>> THEN <<>>
    ELSE LET m == CHOOSE i \in 1..Len(cfc) :
                     \A j \in 1..Len(cfc) : cfc[i].index <= cfc[j].index
             rest == [j \in 1..(Len(cfc) - 1) |->
                         IF j < m THEN cfc[j] ELSE cfc[j + 1]]
         IN  <<cfc[m]>> \o AscendingSlots(rest)

\* C3: at stream end the still-pending slots are appended to the completed
\* list in ascending slot order, whatever the order they were opened in.
C3_AscendingFinalization ==
    StreamEnded =>
        LET n == Len(current_function_calls)
            before == Len(function_calls) - n
            ascending == AscendingSlots(current_function_calls)
        IN  /\ before >= 0
            /\ \A i \in 1..n :
                   function_calls[before + i] = Invocation(ascending[i])

---------------------------------------------------------------------------
(* C4 *)

\* Fragment j has no name and its slot was opened by no earlier fragment.
IsOrphan(frags, j) ==
    /\ ~IsNamed(frags[j])
    /\ \A i \in 1..(j - 1) :
           ~(IsNamed(frags[i]) /\ frags[i].index = frags[j].index)

RECURSIVE WithoutOrphansFrom(_, _)
WithoutOrphansFrom(frags, j) ==
    IF j > Len(frags) THEN <<>>
    ELSE (IF IsOrphan(frags, j) THEN <<>> ELSE <<frags[j]>>)
             \o WithoutOrphansFrom(frags, j + 1)

WithoutOrphans(frags) == WithoutOrphansFrom(frags, 1)

\* C4: a nameless fragment whose slot is not pending changes neither the
\* pending map nor the completed list and raises nothing, and the
\* aggregation goes on as if it had not been delivered: at every point the
\* pending map and the completed list are those of the stream with such
\* fragments removed.
C4_OrphanDropped ==
    LET frags == AllFragments(deltas)
        st == AggregateFragments(AggregationStart, WithoutOrphans(frags))
    IN  /\ current_function_calls = st.current_function_calls
        /\ pc = "stream" => function_calls = st.function_calls /\ error = NoError
        /\ pc # "stream" /\ ~StreamEnded => function_calls = st.function_calls
        /\ StreamEnded =>
               function_calls =
                   st.function_calls
                       \o [i \in 1..Len(st.current_function_calls) |->
                              [name |-> st.current_function_calls[i].name,
                               arguments |->
                                   st.current_function_calls[i].arguments]]

\* A nameless fragment arrived for a slot that was not pending, and later
\* the same slot was opened and received a chunk.
C4_Witness ==
    LET frags == AllFragments(deltas)
    IN  /\ StreamEnded
        /\ Len(frags) = 3
        /\ IsOrphan(frags, 1) /\ frags[1].arguments = Some(ChunkX)
        /\ IsNamed(frags[2]) /\ frags[2].index = frags[1].index
        /\ frags[2].arguments = NoneText
        /\ ~IsNamed(frags[3]) /\ frags[3].index = frags[1].index
        /\ Len(function_calls) = 1
        /\ function_calls[1].arguments = ChunkY

---------------------------------------------------------------------------
(* C5 *)

RECURSIVE ContentChunks(_)
ContentChunks(ds) ==
    IF ds = <<>> THEN <<>>
    ELSE (IF OrEmpty(ds[1].content) # <<>> THEN <<ds[1].content.text>> ELSE <<>>)
             \o ContentChunks(Tail(ds))

StreamBroken == error \in {"StreamError", "CancelledError"}

\* C5: once the stream has failed or was cancelled between two deltas, no
\* pending invocation is finalized or reported: the completed list holds
\* only what slot reuse put there, the review cycle yields nothing and sends
\* no result, and the chat yields only the plain-text content fragments, so
\* no diagram block and no insertion directive of any invocation.
C5_NothingAfterFailure ==
    StreamBroken =>
        /\ function_calls =
               Replay(AggregationStart, deltas).function_calls
        /\ issues = <<>> /\ diagram_insertions = <<>>
        /\ mode = "review" =>
               /\ yielded = <<>>
               /\ \A i \in 1..Len(sent) : sent[i].type # "ai_suggestions"
        /\ mode = "chat" =>
               /\ yielded = ContentChunks(deltas)
               /\ \A i \in 1..Len(sent) : sent[i].type # "chat_result"

\* The stream failed while one invocation was pending and another had been
\* completed by slot reuse, and the endpoint has answered.
C5_Witness ==
    /\ StreamBroken
    /\ pc = "done"
    /\ current_function_calls # <<>>
    /\ function_calls # <<>>
    /\ JsonLoads(function_calls[1].arguments).ok
    /\ mode = "chat"

---------------------------------------------------------------------------
(* C6 *)

\* The payload of the single invocation of the merger specification.
PayloadUnderTest == deltas[1].tool_calls[1].arguments.text[1].doc

IssuesOf(p) == IF "issues" \in DOMAIN p.o THEN p.o.issues.a ELSE <<>>

SeveritiesOf(p) == [i \in 1..Len(IssuesOf(p)) |-> IssuesOf(p)[i].o.severity.s]

SeveritiesInEnum(p) ==
    /\ IssuesOf(p) # <<>>
    /\ \A i \in 1..Len(IssuesOf(p)) :
           /\ "severity" \in DOMAIN IssuesOf(p)[i].o
           /\ IssuesOf(p)[i].o.severity.s \in {"high", "medium", "low"}

Weight(v) == CASE v = "high" -> 3 [] v = "medium" -> 2 [] v = "low" -> 1

\* The suggestions of the result message the endpoint sent.
SentIssues == sent[1].data.o.issues.a

\* C6: for a non-empty issue list with severities in {high, medium, low},
\* the one suggestion built has the severity of maximum weight (high=3,
\* medium=2, low=1), that of the first issue of that weight; [low, high,
\* medium] merges to high and [medium, medium] to medium; and this is the
\* severity the result message carries.
C6_MergedSeverity ==
    (pc # "stream" /\ SeveritiesInEnum(PayloadUnderTest)) =>
        LET sev == SeveritiesOf(PayloadUnderTest)
        IN  /\ Len(issues) = 1
            /\ issues[1].o.severity.k = "str"
            /\ \E i \in 1..Len(sev) :
                   /\ issues[1].o.severity.s = sev[i]
                   /\ \A j \in 1..Len(sev) : Weight(sev[j]) <= Weight(sev[i])
                   /\ \A j \in 1..(i - 1) : Weight(sev[j]) < Weight(sev[i])
            /\ sev = <<"low", "high", "medium">> =>
                   issues[1].o.severity.s = "high"
            /\ sev = <<"medium", "medium">> =>
                   issues[1].o.severity.s = "medium"
            /\ pc = "done" =>
                   /\ sent[1].type = "ai_suggestions"
                   /\ Len(SentIssues) = 1
                   /\ SentIssues[1].o.severity = issues[1].o.severity

\* The issue list [low, high, medium] was merged and the result sent.
C6_Witness ==
    /\ pc = "done"
    /\ SeveritiesInEnum(PayloadUnderTest)
    /\ SeveritiesOf(PayloadUnderTest) = <<"low", "high", "medium">>
    /\ SentIssues[1].o.severity.s = "high"

---------------------------------------------------------------------------
(* C7 *)

\* The strings xs[1..n] joined with sep, built from the left.
RECURSIVE JoinedUpTo(_, _, _)
JoinedUpTo(xs, sep, n) ==
    IF n = 1 THEN xs[1] ELSE JoinedUpTo(xs, sep, n - 1) \o sep \o xs[n]

TypesOf(p) == [i \in 1..Len(IssuesOf(p)) |-> IssuesOf(p)[i].o.type.s]
DescriptionsOf(p) ==
    [i \in 1..Len(IssuesOf(p)) |-> IssuesOf(p)[i].o.description.s]

\* C7: for a non-empty issue list the merged type is the type fields joined
\* with " & " and the merged description the description fields joined with
\* " | ", in input order, neither sorted nor de-duplicated; the suggestion
\* keeps the invocation's originalText, replaceTo and paragraph and the
\* unmerged issue list in the same order; [Structure, Punctuation] gives
\* "Structure & Punctuation".
C7_MergedFields ==
    (pc # "stream" /\ IssuesOf(PayloadUnderTest) # <<>>) =>
        LET p == PayloadUnderTest
            n == Len(IssuesOf(p))
        IN  /\ Len(issues) = 1
            /\ issues[1].o.type = JStr(JoinedUpTo(TypesOf(p), " & ", n))
            /\ issues[1].o.description =
                   JStr(JoinedUpTo(DescriptionsOf(p), " | ", n))
            /\ issues[1].o.issues = p.o.issues
            /\ "originalText" \in DOMAIN p.o =>
                   /\ issues[1].o.originalText = p.o.originalText
                   /\ issues[1].o.replaceTo = p.o.replaceTo
                   /\ issues[1].o.paragraph = p.o.paragraph
            /\ TypesOf(p) = <<"Structure", "Punctuation">> =>
                   /\ issues[1].o.type.s = "Structure & Punctuation"
                   /\ issues[1].o.description.s = "d1 | d2"
            /\ pc = "done" =>
                   /\ sent[1].type = "ai_suggestions"
                   /\ SentIssues = issues

\* A list whose types are neither sorted nor distinct was merged.
C7_Witness ==
    /\ pc = "done"
    /\ TypesOf(PayloadUnderTest) = <<"Structure", "Punctuation", "Structure">>
    /\ "originalText" \in DOMAIN PayloadUnderTest.o
    /\ SentIssues[1].o.type.s = "Structure & Punctuation & Structure"
    /\ SentIssues[1].o.description.s = "d1 | d2 | d1"

---------------------------------------------------------------------------
(* C8 *)

LegacyTriple(p) ==
    /\ "issues" \notin DOMAIN p.o
    /\ {"type", "severity", "description"} \subseteq DOMAIN p.o

TripleOf(p) ==
    JObj([type |-> p.o.type, severity |-> p.o.severity,
          description |-> p.o.description])

OneSuggestionOfTriple(p) ==
    /\ Len(issues) = 1
    /\ issues[1].o.issues = JArr(<<TripleOf(p)>>)
    /\ issues[1].o.type = p.o.type
    /\ issues[1].o.severity = p.o.severity
    /\ issues[1].o.description = p.o.description
    /\ pc = "done" => sent[1].type = "ai_suggestions" /\ SentIssues = issues

\* C8 as stated: a payload with no issues field and a flat {type, severity,
\* description} triple yields one suggestion whose issues list is the
\* one-element list of that triple and whose merged fields are the triple's.
C8_LegacyTriple ==
    (pc # "stream" /\ LegacyTriple(PayloadUnderTest)) =>
        OneSuggestionOfTriple(PayloadUnderTest)

\* C8 amended: the same, for a triple whose type is not the empty string;
\* a triple with an empty type yields no suggestion.
C8_LegacyTripleWithType ==
    /\ (pc # "stream" /\ LegacyTriple(PayloadUnderTest)
           /\ PayloadUnderTest.o.type.s # "") =>
          OneSuggestionOfTriple(PayloadUnderTest)
    /\ (pc # "stream" /\ LegacyTriple(PayloadUnderTest)
           /\ PayloadUnderTest.o.type.s = "") =>
          issues = <<>>

\* The triple {Ambiguity, low, d} was normalized and the result sent.
C8_Witness ==
    /\ pc = "done"
    /\ LegacyTriple(PayloadUnderTest)
    /\ PayloadUnderTest.o.type.s = "Ambiguity"
    /\ PayloadUnderTest.o.severity.s = "low"
    /\ Len(SentIssues) = 1

---------------------------------------------------------------------------
(* C9 *)

Parsable(func_call) == JsonLoads(func_call.arguments).ok

RaisesNothing(func_call) == ReviewCall(ReviewStart, func_call).error = NoError

\* C9: a completed invocation whose arguments are not well-formed JSON is
\* skipped without effect on the others, wherever it stands: suggestions,
\* diagram insertions and the outcome of the cycle are those of the
\* completed list without the unparsable invocations, in the same order,
\* and when none of the others raises the cycle ends with a result message
\* that carries exactly these.
C9_MalformedSkipped ==
    LET others == SelectSeq(function_calls, Parsable)
        expected == ProcessReview(ReviewStart, others)
    IN  pc # "stream" =>
            /\ issues = expected.issues
            /\ diagram_insertions = expected.diagram_insertions
            /\ error = expected.error
            /\ (\A i \in 1..Len(others) : RaisesNothing(others[i])) =>
                   /\ error = NoError
                   /\ pc = "done" =>
                          sent = <<Msg("ai_suggestions",
                                       JObj([issues |-> JArr(expected.issues),
                                             diagram_insertions |->
                                                 JArr(expected.diagram_insertions)]),
                                       <<>>)>>

\* An unparsable create_suggestion stood between two well-formed
\* invocations, and the result carries the suggestions of these two.
C9_Witness ==
    /\ pc = "done"
    /\ Len(function_calls) = 3
    /\ function_calls[2].name = "create_suggestion"
    /\ ~Parsable(function_calls[2])
    /\ function_calls[1] =
           [name |-> "create_suggestion", arguments |-> <<Whole(StreamDoc)>>]
    /\ function_calls[3] =
           [name |-> "create_suggestion", arguments |-> <<Whole(Doc2)>>]
    /\ sent[1].type = "ai_suggestions"
    /\ Len(SentIssues) = 2
    /\ SentIssues[1].o.originalText.s = "a eraser"
    /\ SentIssues[2].o.originalText.s = "said light"

---------------------------------------------------------------------------
(* C10 *)

\* C10: whatever the argument text of each completed invocation, a cycle
\* whose stream ended normally ends with a result message and never with
\* an analysis-error message.
C10_AlwaysResult ==
    (StreamEnded /\ pc = "done") =>
        /\ Len(sent) = 1
        /\ sent[1].type = "ai_suggestions"

---------------------------------------------------------------------------
(* C11 *)

TerminalTypes ==
    {"ai_suggestions", "validation_error", "ai_error", "parsing_error"}

\* The number of processing_start messages among the first i - 1 messages.
StartsBefore(i) ==
    Cardinality({j \in 1..(i - 1) : sent[j].type = "processing_start"})

\* The terminal messages delivered for the k-th received document.
AnswersTo(k) ==
    {i \in 1..Len(sent) : sent[i].type \in TerminalTypes /\ StartsBefore(i) = k}

\* The endpoint awaits the document after the k-th.
AwaitsNextAfter(k) == k < Len(docs) \/ (k = Len(docs) /\ pc = "done")

\* The endpoint has ended while the k-th document was the last one received.
EndedAfter(k) == k = Len(docs) /\ pc \in {"ended", "cancelled"}

\* The send of the result of the last cycle raised.
ResultSendFailed == error = SendError

\* C11 as stated: every received document has at most one terminal message,
\* and exactly one once the endpoint awaits the next document or the channel
\* has closed, on a channel whose peer is there and also when the send of
\* the result itself failed.
C11_ExactlyOneTerminal ==
    \A k \in 1..Len(docs) :
        /\ Cardinality(AnswersTo(k)) <= 1
        /\ (AwaitsNextAfter(k) \/ (EndedAfter(k) /\ pc = "ended")) =>
               ((connected \/ ResultSendFailed) =>
                    Cardinality(AnswersTo(k)) = 1)

\* C11 amended: every received document has at most one terminal message,
\* and exactly one before the endpoint awaits the next document; when the
\* endpoint ends instead, the document has one or none, and none only when
\* the peer was gone (so that a send, that of the result included, failed)
\* or the task was cancelled.
C11_AtMostOneTerminal ==
    \A k \in 1..Len(docs) :
        /\ Cardinality(AnswersTo(k)) <= 1
        /\ AwaitsNextAfter(k) => Cardinality(AnswersTo(k)) = 1
        /\ (EndedAfter(k) /\ AnswersTo(k) = {}) =>
               (~connected \/ pc = "cancelled")
        /\ (EndedAfter(k) /\ ResultSendFailed) => AnswersTo(k) = {}

\* Three documents were answered, by a validation error, an analysis error
\* and a result, and the endpoint awaits a fourth.
C11_Witness ==
    /\ Len(docs) = 3
    /\ pc = "done"
    /\ \A k \in 1..3 : Cardinality(AnswersTo(k)) = 1
    /\ {sent[i].type : i \in AnswersTo(1) \cup AnswersTo(2) \cup AnswersTo(3)}
           = {"validation_error", "ai_error", "ai_suggestions"}

---------------------------------------------------------------------------
(* C12 *)

\* The k-th received document fails validation after normalization.
FailsValidation(k) ==
    ~validate_text_for_ai(html_to_plain_text(docs[k])).is_valid

OpenedFor(k) == \E i \in 1..Len(opened) : opened[i] = k

\* C12: a document that fails validation is answered by a validation error
\* and by nothing else (no result in particular), the answer is there before
\* the endpoint awaits the next document, and the completion transport is
\* never opened for that document.
C12_InvalidNotReviewed ==
    \A k \in 1..Len(docs) :
        FailsValidation(k) =>
            /\ ~OpenedFor(k)
            /\ \A i \in AnswersTo(k) : sent[i].type = "validation_error"
            /\ AwaitsNextAfter(k) => Cardinality(AnswersTo(k)) = 1

\* An empty document was received after a reviewed one and was answered.
C12_Witness ==
    /\ Len(docs) = 2
    /\ docs[2] = EmptyDocument
    /\ html_to_plain_text(docs[2]) = ""
    /\ pc = "done"
    /\ opened = <<1>>
    /\ sent[Len(sent)].type = "validation_error"

---------------------------------------------------------------------------
(* C13 *)

CycleErrorTypes == {"validation_error", "ai_error", "parsing_error"}

\* The answer of a channel that has seen no document before to a cycle whose
\* stream delivers `ds` and ends normally.
FreshAnswer(ds) ==
    LET agg == Replay([function_calls |-> <<>>,
                       current_function_calls |-> <<>>], ds)
        st == ProcessReview(ReviewStart,
                            FinalizePending(agg.function_calls,
                                            agg.current_function_calls))
    IN  IF st.error = NoError
        THEN Msg("ai_suggestions", Response(st), <<>>)
        ELSE Msg("ai_error", JStr(st.error), <<>>)

\* A step of a cycle that delivers a message of one of the error types.
ReportsCycleError ==
    /\ pc # "accept"
    /\ Len(sent') > Len(sent)
    /\ sent'[Len(sent')].type \in CycleErrorTypes

\* A step that answers a cycle whose stream has ended normally.
AnswersEndedStream ==
    /\ pc \in {"yielded", "raised"}
    /\ error # "StreamError"
    /\ Len(sent') > Len(sent)

\* C13: the step that reports a validation error, an analysis error or a
\* parse error leaves the endpoint awaiting the next document on a channel
\* that it has not closed; and whatever was received and answered before,
\* a cycle whose stream ends normally is answered as on a fresh channel.
C13_CycleIsolation ==
    [][/\ ReportsCycleError => (pc' = "done" /\ ~closed' /\ connected')
       /\ AnswersEndedStream => sent'[Len(sent')] = FreshAnswer(deltas')]_vars

\* A validation error and an analysis error were followed, on the same
\* channel, by a result that holds a suggestion.
C13_Witness ==
    /\ Len(docs) = 3
    /\ pc = "done"
    /\ [i \in 1..Len(sent) |-> sent[i].type] =
           <<"connection_success", "processing_start", "validation_error",
             "processing_start", "ai_error",
             "processing_start", "ai_suggestions">>
    /\ sent[Len(sent)].data.o.issues.a # <<>>
    /\ sent[Len(sent)] = FreshAnswer(deltas)

---------------------------------------------------------------------------
(* C14 *)

HandlesStreamError == pc = "raised" /\ error = "StreamError" /\ pc' # pc

---------------------------------------------------------------------------
(* C15 *)

Missing(value) == value \in {None, ""}

\* The arguments get_ai_enhanced is tried with.
ModelArguments == {None, "", "gpt-4o", "gpt-4o-mini"}
KeyArguments == {None, "", "sk-key"}

ConfigurationError ==
    Msg("ai_error", JStr("Both API key and model need to be set"), <<>>)

---------------------------------------------------------------------------
(* C16 *)

\* The invocation asks for a diagram insertion with arguments of the
\* declared shape: an object whose insert_after_text and mermaid_syntax are
\* strings.
IsDeclaredInsertion(fc) ==
    /\ fc.name = "insert_diagram"
    /\ JsonLoads(fc.arguments).ok
    /\ LET a == JsonLoads(fc.arguments).val
       IN  /\ a.k = "dict"
           /\ {"insert_after_text", "mermaid_syntax"} \subseteq DOMAIN a.o
           /\ a.o.insert_after_text.k = "str"
           /\ a.o.mermaid_syntax.k = "str"

OrDefault(a, key, default) == IF key \in DOMAIN a.o THEN a.o[key] ELSE default

\* C16: when the completed invocations of a review stream are all diagram
\* insertions, the cycle ends with a result whose issues are empty and whose
\* diagram_insertions hold one element per invocation, in completion order,
\* with insert_after_text and mermaid_syntax as given, and diagram_type and
\* title as given or else "flowchart" and "".
C16_DiagramOnly ==
    LET n == Len(function_calls)
    IN  (pc # "stream" /\ \A i \in 1..n : IsDeclaredInsertion(function_calls[i]))
        =>  /\ pc \in {"yielded", "done"}
            /\ issues = <<>>
            /\ Len(diagram_insertions) = n
            /\ \A i \in 1..n :
                   LET a == JsonLoads(function_calls[i].arguments).val
                       d == diagram_insertions[i]
                   IN  /\ DOMAIN d.o = {"insert_after_text", "mermaid_syntax",
                                        "diagram_type", "title"}
                       /\ d.o.insert_after_text = a.o.insert_after_text
                       /\ d.o.mermaid_syntax = a.o.mermaid_syntax
                       /\ d.o.diagram_type =
                              OrDefault(a, "diagram_type", JStr("flowchart"))
                       /\ d.o.title = OrDefault(a, "title", JStr(""))
            /\ pc = "done" =>
                   sent = <<Msg("ai_suggestions",
                                JObj([issues |-> JArr(<<>>),
                                      diagram_insertions |->
                                          JArr(diagram_insertions)]),
                                <<>>)>>

\* Two insertions were asked for, one without diagram_type and title and
\* one with both, and the result was sent.
C16_Witness ==
    /\ pc = "done"
    /\ Len(function_calls) = 2
    /\ \A i \in 1..2 : IsDeclaredInsertion(function_calls[i])
    /\ function_calls[1].arguments = <<Whole(StreamDoc)>>
    /\ function_calls[2].arguments = <<Whole(Doc2)>>
    /\ Len(sent) = 1
    /\ sent[1].data.o.diagram_insertions.a[1].o.diagram_type = JStr("flowchart")
    /\ sent[1].data.o.diagram_insertions.a[2].o.diagram_type = JStr("sequence")

---------------------------------------------------------------------------
(* C17 *)

\* A diagram-insertion invocation was completed and its arguments parsed.
InsertionRequested ==
    \E i \in 1..Len(function_calls) :
        /\ function_calls[i].name = "insert_diagram"
        /\ JsonLoads(function_calls[i].arguments).ok

\* C17: the object chat_with_ai returns carries a diagram_insertions field
\* only when a diagram-insertion invocation was completed and parsed during
\* the cycle; content fragments alone never make the field appear.
C17_InsertionsOnlyWhenRequested ==
    \A i \in 1..Len(sent) :
        (sent[i].type = "chat_result"
             /\ "diagram_insertions" \in DOMAIN sent[i].data.o)
            => InsertionRequested

---------------------------------------------------------------------------
(* C18 *)

\* C18: in a review result no two suggestions have the same originalText.
C18_OneEditPerSpan ==
    \A m \in 1..Len(sent) :
        sent[m].type = "ai_suggestions" =>
            LET suggestions == sent[m].data.o.issues.a
            IN  \A i, j \in 1..Len(suggestions) :
                    suggestions[i].o.originalText = suggestions[j].o.originalText
                        => i = j

---------------------------------------------------------------------------
(* C19 *)

HandledNames(m) ==
    IF m = "review" THEN {"create_suggestion", "insert_diagram"}
    ELSE {"create_diagram", "insert_diagram"}

IsHandled(fc) == fc.name \in HandledNames(mode)

\* C19: the outcome of the dispatch is that of the completed list without
\* the invocations of names the dispatcher does not handle, whatever their
\* arguments: the same issues, diagram insertions, log and error in the
\* review, the same yielded output, log and error in the chat; so a list of
\* such invocations alone adds nothing and raises nothing.
C19_UnknownIgnored ==
    LET others == SelectSeq(function_calls, IsHandled)
    IN  pc # "stream" =>
            /\ mode = "review" =>
                   LET expected == ProcessReview(ReviewStart, others)
                   IN  /\ issues = expected.issues
                       /\ diagram_insertions = expected.diagram_insertions
                       /\ error = expected.error
                       /\ pc = "yielded" => log = expected.log
            /\ mode = "chat" =>
                   LET expected == ProcessChat([yielded |-> <<>>, log |-> <<>>,
                                                error |-> NoError], others)
                   IN  /\ yielded = expected.yielded
                       /\ error = expected.error
                       /\ pc \in {"returned", "raised"} => log = expected.log
            /\ others = <<>> =>
                   /\ error = NoError /\ log = <<>>
                   /\ issues = <<>> /\ diagram_insertions = <<>>
                   /\ mode = "chat" => yielded = <<>>

\* An invocation of a name in no catalog, with malformed arguments, stood
\* between a suggestion and a diagram insertion, and the result holds both.
C19_Witness ==
    /\ mode = "review"
    /\ pc = "done"
    /\ Len(function_calls) = 3
    /\ function_calls[2] =
           [name |-> "get_weather", arguments |-> <<FirstHalf(StreamDoc)>>]
    /\ Len(issues) = 1
    /\ Len(diagram_insertions) = 1
    /\ sent[1].type = "ai_suggestions"
    /\ log = <<>>

---------------------------------------------------------------------------
(* C20 *)

\* What the chat yields for the completed invocations, in their order: a
\* diagram block for create_diagram, a directive for insert_diagram.
RECURSIVE InvocationOutputs(_)
InvocationOutputs(fcs) ==
    IF fcs = <<>> THEN <<>>
    ELSE LET parsed == JsonLoads(fcs[1].arguments)
             output ==
                 IF ~parsed.ok \/ parsed.val.k # "dict" THEN <<>>
                 ELSE IF fcs[1].name = "create_diagram"
                 THEN <<<<Fenced(OrDefault(parsed.val, "mermaid_syntax",
                                           JStr("")))>>>>
                 ELSE IF fcs[1].name = "insert_diagram"
                 THEN <<<<DIAGRAM_INSERT,
                          Whole(JObj([insert_after_text |->
                                          OrDefault(parsed.val,
                                                    "insert_after_text", JStr("")),
                                      mermaid_syntax |->
                                          OrDefault(parsed.val,
                                                    "mermaid_syntax", JStr("")),
                                      diagram_type |->
                                          OrDefault(parsed.val, "diagram_type",
                                                    JStr("flowchart")),
                                      title |->
                                          OrDefault(parsed.val, "title",
                                                    JStr(""))]))>>>>
                 ELSE <<>>
         IN  output \o InvocationOutputs(Tail(fcs))

\* C20: the step that consumes a delta yields its content, when not empty,
\* in that very step and yields nothing else; as long as the stream has not
\* ended the yielded output is exactly the non-empty content fragments in
\* arrival order; and the step that ends the stream appends, after them, the
\* outputs of the invocations in the order of the completed list.
C20_TextLiveInvocationsDeferred ==
    [][/\ (pc = "stream" /\ deltas' # deltas) =>
              LET delta == deltas'[Len(deltas')]
              IN  yielded' = IF OrEmpty(delta.content) # <<>>
                             THEN Append(yielded, delta.content.text)
                             ELSE yielded
       /\ pc' = "stream" => yielded' = ContentChunks(deltas')
       /\ (pc = "stream" /\ pc' = "returned") =>
              yielded' = ContentChunks(deltas)
                             \o InvocationOutputs(function_calls')]_vars

\* Text arrived before, between and after two invocations; the text was
\* yielded first and the diagram block and the directive after it.
C20_Witness ==
    /\ mode = "chat"
    /\ pc = "done"
    /\ Len(deltas) = 4
    /\ deltas[1].tool_calls # <<>> /\ deltas[3].tool_calls # <<>>
    /\ deltas[2].content = Some(<<Lit("Sure.")>>)
    /\ deltas[4].content = Some(<<Lit("Sure.")>>)
    /\ Len(yielded) = 4
    /\ yielded[1] = <<Lit("Sure.")>> /\ yielded[2] = <<Lit("Sure.")>>
    /\ yielded[3] = <<Fenced(JStr("graph TD"))>>
    /\ IsDirective(yielded[4])

---------------------------------------------------------------------------
(* C21 *)

ParseFailureSites ==
    {"review.create_suggestion", "review.insert_diagram", "chat.insert_diagram"}

\* The invocation name an except handler stands for.
NameOfSite(site) ==
    IF site = "review.create_suggestion" THEN "create_suggestion"
    ELSE "insert_diagram"

IsParseFailure(record) == record.site \in ParseFailureSites

\* The argument-parse-failure events of the cycle, in order.
ParseFailureEvents ==
    LET records == SelectSeq(log, IsParseFailure)
    IN  [i \in 1..Len(records) |->
            [name |-> NameOfSite(records[i].site),
             arguments |-> records[i].arguments]]

IsUnparsableHandled(fc) == IsHandled(fc) /\ ~Parsable(fc)

\* C21: in the review and in the document-aware chat alike, when the
\* dispatch went through the whole completed list, the argument-parse-failure
\* events are, one for one and in order, the handled invocations whose
\* arguments are no well-formed JSON, each with the name and the raw
\* argument text of its invocation.
C21_ParseFailureReported ==
    (pc \in {"yielded", "returned"} /\ error = NoError) =>
        ParseFailureEvents = SelectSeq(function_calls, IsUnparsableHandled)

---------------------------------------------------------------------------
(* C22 *)

\* What chat_with_document_context yields for the delta sequence `ds` when
\* the stream ends normally.
DocumentContextOutcome(ds) ==
    LET agg == Replay(AggregationStart, ds)
    IN  ProcessChat([yielded |-> ContentChunks(ds), log |-> <<>>,
                     error |-> NoError],
                    FinalizePending(agg.function_calls,
                                    agg.current_function_calls))

IsBlock(chunk) == chunk # <<>> /\ chunk[1].part = "mermaid"

\* The fenced diagram blocks among the yielded chunks, in order.
Blocks(chunks) == SelectSeq(chunks, IsBlock)

\* C22: for streams of inline-diagram invocations, delivered whole, split
\* over several fragments or with no arguments on the name-bearing fragment,
\* chat_with_user raises nothing of its own and, once the stream has ended,
\* has yielded exactly the fenced blocks that chat_with_document_context
\* yields for the same delta sequence: one block per invocation whose
\* joined arguments are well-formed JSON, in the same order.
C22_UserChatYieldsSameBlocks ==
    /\ pc = "raised" => error \in {"StreamError", "CancelledError"}
    /\ pc = "returned" =>
           /\ DocumentContextOutcome(deltas).error = NoError
           /\ Blocks(yielded) = Blocks(DocumentContextOutcome(deltas).yielded)

---------------------------------------------------------------------------
(* C23 *)

IsPrefix(xs, ys) == Len(xs) <= Len(ys) /\ SubSeq(ys, 1, Len(xs)) = xs

\* The number of entries of `xs` that bear the name `n`.
CountNamed(xs, n) == Cardinality({i \in 1..Len(xs) : xs[i].name = n})

\* C23: every step leaves the completed list a prefix of what it becomes
\* (entries are appended, never removed or changed), and once the stream
\* was consumed to its end the completed list has one entry for each
\* fragment that bore a non-empty name, with that name: as many entries in
\* all, and as many of each name, as name-bearing fragments arrived.
C23_NoInvocationLost ==
    [][/\ IsPrefix(function_calls, function_calls')
       /\ StreamEnded' =>
              LET opening == SelectSeq(AllFragments(deltas'), IsNamed)
              IN  /\ Len(function_calls') = Len(opening)
                  /\ \A i \in 1..Len(opening) :
                         CountNamed(function_calls', opening[i].name)
                             = CountNamed(opening, opening[i].name)]_vars

\* Three name-bearing fragments arrived, two of them in the same slot, and
\* the stream ended with three completed invocations.
C23_Witness ==
    /\ StreamEnded
    /\ Len(function_calls) = 3
    /\ LET opening == SelectSeq(AllFragments(deltas), IsNamed)
       IN  /\ Len(opening) = 3
           /\ opening[1].index = opening[2].index
           /\ opening[1].name # opening[2].name
           /\ function_calls[1].name = opening[1].name

---------------------------------------------------------------------------
(* C24 *)

SeverityEnum == {JStr("high"), JStr("medium"), JStr("low")}

\* C24: whatever the severities of the issues delivered (in the
\* enumeration, outside it, or absent), every suggestion built, and every
\* suggestion of the result message, has a severity among high, medium, low.
C24_SeverityInEnum ==
    /\ \A i \in 1..Len(issues) : issues[i].o.severity \in SeverityEnum
    /\ (pc = "done" /\ sent[1].type = "ai_suggestions") =>
           \A i \in 1..Len(SentIssues) : SentIssues[i].o.severity \in SeverityEnum

---------------------------------------------------------------------------
(* C25 *)

\* C25: the response of the object the chat call returns is the content
\* fragments of the stream that are not empty, joined in arrival order,
\* followed by the diagram blocks of the completed invocations: every
\* content fragment is in it, whatever its text.
C25_ResponseIsAllContent ==
    (mode = "chat" /\ pc = "done" /\ sent[1].type = "chat_result") =>
        sent[1].response =
            JoinChunks(ContentChunks(deltas)
                           \o Blocks(InvocationOutputs(function_calls)))

---------------------------------------------------------------------------
(* C26 *)

IsSuggestionCall(fc) == fc.name = "create_suggestion"

\* A create_suggestion invocation whose arguments are a well-formed object
\* with an empty or absent issues array and no non-empty legacy type.
NamesNoIssue(fc) ==
    /\ IsSuggestionCall(fc)
    /\ Parsable(fc)
    /\ LET a == JsonLoads(fc.arguments).val
       IN  /\ a.k = "dict"
           /\ "issues" \in DOMAIN a.o => a.o.issues = JArr(<<>>)
           /\ "type" \in DOMAIN a.o => a.o.type = JStr("")

NamesAnIssue(fc) == ~NamesNoIssue(fc)

HasIssues(suggestion) ==
    /\ suggestion.o.issues.k = "list"
    /\ suggestion.o.issues.a # <<>>

\* C26: every suggestion built, and every suggestion of the result message,
\* carries a non-empty issues list; there are never more suggestions than
\* completed create_suggestion invocations; and an invocation that names no
\* issue adds nothing and raises nothing: suggestions and outcome of the
\* cycle are those of the completed list without such invocations.
C26_SuggestionsHaveIssues ==
    /\ \A i \in 1..Len(issues) : HasIssues(issues[i])
    /\ pc # "stream" =>
           /\ Len(issues) <= Len(SelectSeq(function_calls, IsSuggestionCall))
           /\ LET expected ==
                      ProcessReview(ReviewStart,
                                    SelectSeq(function_calls, NamesAnIssue))
              IN  issues = expected.issues /\ error = expected.error
    /\ (pc = "done" /\ sent[1].type = "ai_suggestions") =>
           /\ SentIssues = issues
           /\ \A i \in 1..Len(SentIssues) : HasIssues(SentIssues[i])

\* An invocation that names no issue stood between two that do, and the
\* result carries the two suggestions of these.
C26_Witness ==
    /\ pc = "done"
    /\ Len(function_calls) = 3
    /\ NamesNoIssue(function_calls[2])
    /\ function_calls[1] =
           [name |-> "create_suggestion", arguments |-> <<Whole(Doc2)>>]
    /\ function_calls[3] =
           [name |-> "create_suggestion", arguments |-> <<Whole(StreamDoc)>>]
    /\ sent[1].type = "ai_suggestions"
    /\ Len(SentIssues) = 2
    /\ SentIssues[1].o.originalText.s = "said light"
    /\ SentIssues[2].o.originalText.s = "a eraser"

---------------------------------------------------------------------------
(* C27 *)

\* get_ai_enhanced of line 41 returned a service.
ServiceReady == get_ai_enhanced(OPENAI_MODEL, OPENAI_API_KEY).ok

ReadyCount ==
    Cardinality({i \in 1..Len(sent) : sent[i].type = "connection_success"})

\* Once the endpoint is past its start, and unless the peer was gone before
\* anything could be sent, connection-ready was sent once and first.
ReadyOnceAndFirst ==
    (pc # "accept" /\ (connected \/ sent # <<>>)) =>
        /\ ReadyCount = 1
        /\ sent[1].type = "connection_success"

\* The number of processing_start messages among the first i messages of s.
StartsUpTo(s, i) ==
    Cardinality({j \in 1..i : s[j].type = "processing_start"})

\* The i-th message is what the handling of the document received last
\* produces.
AnswersLatest(i) ==
    CASE sent[i].type = "validation_error" -> FailsValidation(Len(docs))
      [] sent[i].type = "ai_suggestions" ->
             /\ OpenedFor(Len(docs))
             /\ sent[i].data = Response([issues |-> issues,
                                         diagram_insertions |->
                                             diagram_insertions])
      [] sent[i].type = "ai_error" -> OpenedFor(Len(docs)) /\ error # NoError
      [] OTHER -> OpenedFor(Len(docs))

\* A step only appends messages; a processing-started message it appends
\* is the one of the document received last, and a result or error message
\* it appends for a document comes after that message, before that of any
\* later document, and answers the document received last.
DocumentsInOrder ==
    /\ IsPrefix(sent, sent')
    /\ \A i \in (Len(sent) + 1)..Len(sent') :
           /\ sent'[i].type = "processing_start" =>
                  StartsUpTo(sent', i) = Len(docs')
           /\ (sent'[i].type \in TerminalTypes /\ pc # "accept") =>
                  /\ docs' # <<>>
                  /\ StartsUpTo(sent', i) = Len(docs')
                  /\ AnswersLatest(i)'

\* C27 as stated: on every channel connection-ready is sent exactly once and
\* before any other message, a processing-started message precedes the
\* result or error message of its document, and no such message follows the
\* processing-started message of a later document.
C27_MessagesOrdered ==
    [][ReadyOnceAndFirst' /\ DocumentsInOrder]_vars

\* C27 amended: the same on a channel whose analysis service could be
\* initialised; on a channel whose service could not be initialised
\* connection-ready is never sent and no document is received.
C27_MessagesOrderedWhenReady ==
    [][/\ ServiceReady => ReadyOnceAndFirst'
       /\ ~ServiceReady => (ReadyCount' = 0 /\ docs' = <<>>)
       /\ DocumentsInOrder]_vars

\* Three documents were received and answered: connection-ready first, then
\* for each document a processing-started message and its answer.
C27_Witness ==
    /\ pc = "done"
    /\ Len(docs) = 3
    /\ Len(sent) = 7
    /\ sent[1].type = "connection_success"
    /\ \A k \in 1..3 :
           /\ sent[2 * k].type = "processing_start"
           /\ sent[2 * k + 1].type \in TerminalTypes
    /\ sent[3].type = "ai_suggestions"
    /\ sent[5].type = "validation_error"
    /\ sent[7].type = "ai_error"

===========================================================================
